---- MODULE Spec2Model ----
(***************************************************************************)
(* Model of the strategy back-test engine (backend/backtest.py) and of the *)
(* grid-search optimizer built on it (backend/optimizer.py).               *)
(*                                                                         *)
(* Money, prices and units are Python floats in the source.  They are      *)
(* modelled as exact rationals <<numerator, denominator>> in lowest terms  *)
(* with a positive denominator; <<0, 0>> stands for NaN (the undefined     *)
(* head of a rolling mean or of a shifted column).  Float rounding is not  *)
(* modelled: an equality of the model is an equality of the source up to   *)
(* the rounding of IEEE doubles.                                           *)
(*                                                                         *)
(* Python indices are 0-based, TLA+ sequences 1-based: the variable i is   *)
(* the Python loop index and a column is read at position i + 1.           *)
(***************************************************************************)
EXTENDS Integers, Sequences, FiniteSets, TLC

VARIABLES
    cfg,            \* the BacktestEngine's configuration fields (self.*)
    dates,          \* self.df['date'] after __init__: ascending day ordinals
    prices,         \* self.df['price'] after __init__
    pc,             \* position of run(): "start", "loop", "broke", "done", "error"
    Signal_Buy,     \* df['Signal_Buy'] over the untrimmed frame
    Signal_Sell,    \* df['Signal_Sell'] over the untrimmed frame
    start_idx,      \* first simulated index of the untrimmed frame
    i,              \* loop index into the trimmed frame
    cash, pos, entry_price, entry_date, units,
    equity_curve,   \* list of EquityPoint
    trades,         \* list of Trade
    result,         \* the dict run() returns, NoResult before
    opt             \* state of StrategyOptimizer.run

vars == <<cfg, dates, prices, pc, Signal_Buy, Signal_Sell, start_idx, i,
          cash, pos, entry_price, entry_date, units, equity_curve, trades,
          result, opt>>

engineVars == <<cfg, dates, prices, pc, Signal_Buy, Signal_Sell, start_idx, i,
                cash, pos, entry_price, entry_date, units, equity_curve,
                trades, result>>

-----------------------------------------------------------------------------
(* Float arithmetic as exact rational arithmetic.                          *)

Abs(n) == IF n < 0 THEN -n ELSE n

RECURSIVE GCD(_, _)
GCD(a, b) == IF b = 0 THEN a ELSE GCD(b, a % b)

Norm(n, d) ==
    LET g == GCD(Abs(n), d)
    IN  <<n \div g, d \div g>>

(* F applied to the value of x, computed once *)
Bind(x, F(_)) == CHOOSE r \in {F(v) : v \in {x}} : TRUE

NaN == <<0, 0>>
IsNaN(x) == x[2] = 0
Zero == <<0, 1>>
RInt(n) == <<n, 1>>
Frac(n, d) == Norm(n, d)

RNeg(x) == <<-x[1], x[2]>>

RAdd(x, y) ==
    LET g == GCD(x[2], y[2])
        l == (x[2] \div g) * y[2]
    IN  Norm(x[1] * (l \div x[2]) + y[1] * (l \div y[2]), l)

RSub(x, y) == RAdd(x, RNeg(y))

RMul(x, y) ==
    LET g1 == GCD(Abs(x[1]), y[2])
        g2 == GCD(Abs(y[1]), x[2])
    IN  <<(x[1] \div g1) * (y[1] \div g2), (x[2] \div g2) * (y[2] \div g1)>>

RInv(x) == IF x[1] < 0 THEN <<-x[2], -x[1]>> ELSE <<x[2], x[1]>>

RDiv(x, y) == RMul(x, RInv(y))

RLt(x, y) ==
    LET g == GCD(x[2], y[2])
    IN  x[1] * (y[2] \div g) < y[1] * (x[2] \div g)

RLe(x, y) == ~RLt(y, x)
RAbs(x) == <<Abs(x[1]), x[2]>>
RMax(x, y) == IF RLt(x, y) THEN y ELSE x
RMin(x, y) == IF RLt(y, x) THEN y ELSE x

(* Comparisons of pandas columns: any comparison with NaN is False.        *)
Gt(a, b) == ~IsNaN(a) /\ ~IsNaN(b) /\ RLt(b, a)
Lt(a, b) == ~IsNaN(a) /\ ~IsNaN(b) /\ RLt(a, b)
Ge(a, b) == ~IsNaN(a) /\ ~IsNaN(b) /\ RLe(b, a)
Le(a, b) == ~IsNaN(a) /\ ~IsNaN(b) /\ RLe(a, b)

-----------------------------------------------------------------------------
(* Dates.  A date is the number of days since 2023-01-01; .month and       *)
(* strftime('%Y-%m-%d') are computed from the civil calendar.              *)

BaseYear == 2023

IsLeap(y) == (y % 4 = 0 /\ y % 100 # 0) \/ y % 400 = 0

DaysInMonth(y, m) ==
    IF m = 2 THEN (IF IsLeap(y) THEN 29 ELSE 28)
    ELSE IF m \in {4, 6, 9, 11} THEN 30 ELSE 31

RECURSIVE Civil(_, _, _)
Civil(y, m, rest) ==
    IF rest < DaysInMonth(y, m) THEN <<y, m, rest + 1>>
    ELSE IF m = 12 THEN Civil(y + 1, 1, rest - DaysInMonth(y, m))
    ELSE Civil(y, m + 1, rest - DaysInMonth(y, m))

Strftime(d) == Civil(BaseYear, 1, d)
Month(d) == Strftime(d)[2]

-----------------------------------------------------------------------------
(* Signal generation.                                                      *)

RECURSIVE SumRange(_, _, _)
SumRange(col, lo, hi) ==
    IF lo > hi THEN 0 ELSE col[hi] + SumRange(col, lo, hi - 1)

(* Variant: rolling(window=w, min_periods=1), a mean over the rows seen. *)
RollingMeanPartial(col, w) ==
    [k \in 1..Len(col) |->
        IF k < w THEN Frac(SumRange(col, 1, k), k)
        ELSE Frac(SumRange(col, k - w + 1, k), w)]

(* Series.rolling(window=w).mean(): NaN until w observations are seen. *)
RollingMean(col, w) ==
    [k \in 1..Len(col) |->
        IF k < w THEN NaN ELSE Frac(SumRange(col, k - w + 1, k), w)]

(* Series.shift(1) *)
Shift(col) == [k \in 1..Len(col) |-> IF k = 1 THEN NaN ELSE col[k - 1]]

AsFloat(col) == [k \in 1..Len(col) |-> RInt(col[k])]

CrossUp(a, b) ==
    [k \in 1..Len(a) |-> Gt(a[k], b[k]) /\ Le(Shift(a)[k], Shift(b)[k])]

CrossDown(a, b) ==
    [k \in 1..Len(a) |-> Lt(a[k], b[k]) /\ Ge(Shift(a)[k], Shift(b)[k])]

(* Variant: buy-hold raises the buy signal on every row. *)
BuySignalEveryRow(c, px) ==
    IF c.strategy_mode = "buy-hold" THEN [k \in 1..Len(px) |-> TRUE]
    ELSE IF c.strategy_mode = "dual-ma"
         THEN CrossUp(RollingMean(px, c.ma_fast), RollingMean(px, c.ma_slow))
    ELSE CrossUp(AsFloat(px), RollingMean(px, c.ma_fast))

BuySignal(c, px) ==
    IF c.strategy_mode = "buy-hold" THEN [k \in 1..Len(px) |-> k = 1]
    ELSE IF c.strategy_mode = "dual-ma"
         THEN CrossUp(RollingMean(px, c.ma_fast), RollingMean(px, c.ma_slow))
    ELSE CrossUp(AsFloat(px), RollingMean(px, c.ma_fast))

SellSignal(c, px) ==
    IF c.strategy_mode = "buy-hold" THEN [k \in 1..Len(px) |-> FALSE]
    ELSE IF c.strategy_mode = "dual-ma"
         THEN CrossDown(RollingMean(px, c.ma_fast), RollingMean(px, c.ma_slow))
    ELSE CrossDown(AsFloat(px), RollingMean(px, c.ma_fast))

(* Variant: dual-ma trimmed at the fast window instead of the slow one, *)
(* single-ma one period early.                                         *)
StartIdxEarly(c) ==
    IF c.strategy_mode = "buy-hold" THEN 0
    ELSE IF c.strategy_mode = "dual-ma" THEN c.ma_fast
    ELSE c.ma_fast - 1

StartIdx(c) ==
    IF c.strategy_mode = "buy-hold" THEN 0
    ELSE IF c.strategy_mode = "dual-ma" THEN c.ma_slow
    ELSE c.ma_fast

-----------------------------------------------------------------------------
(* The simulation loop of BacktestEngine.run.  The loop's local variables  *)
(* that a period can change travel in a record                             *)
(*   [cash, pos, entry_price, entry_date, units, trades].                  *)

MinObs == 30
TradingDays == 252
One == RInt(1)
LiquidationRatio == Frac(15, 100)
NoDate == -1
NoResult == [status |-> "none"]

FmtEntry(d) == IF d = NoDate THEN "" ELSE Strftime(d)

(* The trimmed frame df.iloc[start_idx:] *)
NPeriods == IF start_idx >= Len(prices) THEN 0 ELSE Len(prices) - start_idx
PriceAt(k) == RInt(prices[start_idx + k + 1])
DateAt(k) == dates[start_idx + k + 1]

Locals == [cash |-> cash, pos |-> pos, entry_price |-> entry_price,
           entry_date |-> entry_date, units |-> units, trades |-> trades]

UnrealizedPnl(s, price) ==
    RMul(RMul(RSub(price, s.entry_price), s.units), RInt(s.pos))

(* Carry accrued by a Long, added to cash before the equity snapshot. *)
AccrueYield(s, c, k) ==
    IF s.pos # 0 /\ c.enable_yield /\ s.pos = 1 /\ k > 0
    THEN [s EXCEPT !.cash = RAdd(@, RMul(RMul(PriceAt(k - 1),
                                   RDiv(c.annual_yield, RInt(TradingDays))),
                                   s.units))]
    ELSE s

(* Variant: the snapshot forgets the unrealized P&L. *)
CurrentEquityCashOnly(s, price) == s.cash

CurrentEquity(s, price) ==
    IF s.pos # 0 THEN RAdd(s.cash, UnrealizedPnl(s, price)) ELSE s.cash

IsLiquidation(s, c, current_equity) ==
    s.pos # 0 /\ RLt(current_equity, RMul(c.initial_cash, LiquidationRatio))

(* Variant: the liquidation point keeps the computed equity. *)
LiquidationPointKeepsEquity(d, current_equity) ==
    [date |-> Strftime(d), value |-> current_equity]

LiquidationPoint(d, current_equity) == [date |-> Strftime(d), value |-> Zero]

EquityPoint(d, current_equity) == [date |-> Strftime(d), value |-> current_equity]

Trade(direction, entered, exited, entry_p, exit_p, n, pnl, pct) ==
    [direction |-> direction, entry_date |-> entered, exit_date |-> exited,
     entry_price |-> entry_p, exit_price |-> exit_p, units |-> n,
     pnl |-> pnl, pnl_pct |-> pct]

RebalanceDue(s, c, k) ==
    /\ c.do_rebalance
    /\ k > 0
    /\ Month(DateAt(k)) # Month(DateAt(k - 1))
    /\ s.pos # 0
    /\ RLt(Zero, s.cash)

(* Variant: the Rebalance entry records the realized P&L. *)
RebalanceRecordsPnl(s, c, price, d, current_equity) ==
    LET cash1 == RAdd(s.cash, UnrealizedPnl(s, price))
        target_units == RDiv(RMul(cash1, c.leverage), price)
        rebalance_fee == RMul(RMul(RAbs(RSub(target_units, s.units)), price), c.fee_rate)
    IN  [s EXCEPT
           !.cash = RSub(cash1, rebalance_fee),
           !.units = target_units,
           !.entry_price = price,
           !.trades = Append(@, Trade("Rebalance", Strftime(d), Strftime(d),
                        price, price, target_units, UnrealizedPnl(s, price), Zero))]

Rebalance(s, c, price, d, current_equity) ==
    LET realized_pnl == UnrealizedPnl(s, price)
        cash1 == RAdd(s.cash, realized_pnl)
        target_units == RDiv(RMul(cash1, c.leverage), price)
        diff_units == RAbs(RSub(target_units, s.units))
        rebalance_fee == RMul(RMul(diff_units, price), c.fee_rate)
    IN  [s EXCEPT
           !.cash = RSub(cash1, rebalance_fee),
           !.units = target_units,
           !.entry_price = price,
           !.trades = Append(@, Trade("Rebalance", Strftime(d), Strftime(d),
                        price, price, target_units, RNeg(rebalance_fee),
                        IF RLt(Zero, current_equity)
                        THEN RDiv(RNeg(rebalance_fee), current_equity)
                        ELSE Zero))]

(* Variant: the size is not reduced by the fee. *)
PositionSizeNoFee(money, c, entry_p) == RDiv(RMul(money, c.leverage), entry_p)

PositionSize(money, c, entry_p) ==
    RDiv(RDiv(RMul(money, c.leverage), entry_p), RAdd(One, c.fee_rate))

(* Variant: the entry fee is also taken from cash. *)
OpenPositionChargesFee(s, c, side, entry_p, d) ==
    [s EXCEPT !.pos = side, !.entry_price = entry_p,
              !.units = PositionSize(s.cash, c, entry_p), !.entry_date = d,
              !.cash = RSub(@, RMul(RMul(entry_p, PositionSize(s.cash, c, entry_p)),
                                    c.fee_rate))]

OpenPosition(s, c, side, entry_p, d) ==
    [s EXCEPT !.pos = side, !.entry_price = entry_p,
              !.units = PositionSize(s.cash, c, entry_p), !.entry_date = d]

(* Close the open position at exit_p: record the trade, realise the net    *)
(* P&L into cash, go Flat.                                                 *)
ClosePosition(s, c, exit_p, d) ==
    LET pnl == RMul(RMul(RSub(exit_p, s.entry_price), s.units), RInt(s.pos))
        fee == RMul(RMul(exit_p, s.units), c.fee_rate)
        net_pnl == RSub(pnl, fee)
    IN  [s EXCEPT
           !.trades = Append(@, Trade(IF s.pos = 1 THEN "Long" ELSE "Short",
                        FmtEntry(s.entry_date), Strftime(d), s.entry_price,
                        exit_p, s.units, net_pnl,
                        IF RLt(Zero, s.cash) THEN RDiv(net_pnl, s.cash) ELSE Zero)),
           !.cash = RAdd(@, net_pnl),
           !.pos = 0,
           !.units = Zero]

SlipDown(price, c) == RMul(price, RSub(One, c.slippage))
SlipUp(price, c) == RMul(price, RAdd(One, c.slippage))

(* Variant: a closed Long is flipped into a Short whatever trade_direction. *)
OnSignalsAlwaysFlip(s, c, price, d, sig_buy, sig_sell) ==
    IF s.pos = 1 /\ sig_sell THEN
        LET closed == ClosePosition(s, c, SlipDown(price, c), d)
        IN  IF RLt(Zero, closed.cash)
            THEN OpenPosition(closed, c, -1, SlipDown(price, c), d)
            ELSE closed
    ELSE IF s.pos = -1 /\ sig_buy THEN
        LET closed == ClosePosition(s, c, SlipUp(price, c), d)
        IN  IF RLt(Zero, closed.cash)
            THEN OpenPosition(closed, c, 1, SlipUp(price, c), d)
            ELSE closed
    ELSE IF s.pos = 0 /\ RLt(Zero, s.cash) THEN
        IF sig_buy THEN OpenPosition(s, c, 1, SlipUp(price, c), d)
        ELSE IF sig_sell /\ c.trade_direction = "long-short"
             THEN OpenPosition(s, c, -1, SlipDown(price, c), d)
        ELSE s
    ELSE s

OnSignals(s, c, price, d, sig_buy, sig_sell) ==
    IF s.pos = 1 /\ sig_sell THEN
        LET closed == ClosePosition(s, c, SlipDown(price, c), d)
        IN  IF c.trade_direction = "long-short" /\ RLt(Zero, closed.cash)
            THEN OpenPosition(closed, c, -1, SlipDown(price, c), d)
            ELSE closed
    ELSE IF s.pos = -1 /\ sig_buy THEN
        LET closed == ClosePosition(s, c, SlipUp(price, c), d)
        IN  IF RLt(Zero, closed.cash)
            THEN OpenPosition(closed, c, 1, SlipUp(price, c), d)
            ELSE closed
    ELSE IF s.pos = 0 /\ RLt(Zero, s.cash) THEN
        IF sig_buy THEN OpenPosition(s, c, 1, SlipUp(price, c), d)
        ELSE IF sig_sell /\ c.trade_direction = "long-short"
             THEN OpenPosition(s, c, -1, SlipDown(price, c), d)
        ELSE s
    ELSE s

(* Variant: the signals are handled before the rebalance. *)
AfterPeriodSignalsFirst(s, c, k, current_equity) ==
    LET price == PriceAt(k)
        d == DateAt(k)
        t == OnSignals(s, c, price, d,
                       Signal_Buy[start_idx + k + 1], Signal_Sell[start_idx + k + 1])
    IN  IF RebalanceDue(t, c, k) THEN Rebalance(t, c, price, d, current_equity) ELSE t

(* One period that is not a liquidation: rebalance, then the signals. *)
AfterPeriod(s, c, k, current_equity) ==
    LET price == PriceAt(k)
        d == DateAt(k)
        r == IF RebalanceDue(s, c, k)
             THEN Rebalance(s, c, price, d, current_equity) ELSE s
    IN  OnSignals(r, c, price, d,
                  Signal_Buy[start_idx + k + 1], Signal_Sell[start_idx + k + 1])

-----------------------------------------------------------------------------
(* Performance figures.                                                    *)

Values(curve) == [k \in 1..Len(curve) |-> curve[k].value]

(* Variant: the first value stands for the peak. *)
FirstValueAsPeak(values, k) == values[1]

(* np.maximum.accumulate(values)[k] *)
RunningPeak(values, k) ==
    CHOOSE v \in {values[j] : j \in 1..k} :
        \A w \in {values[j] : j \in 1..k} : RLe(w, v)

(* (values - peaks) / peaks; a zero peak gives NaN or -inf in numpy *)
Drawdown(values, k) ==
    LET peak == RunningPeak(values, k)
    IN  IF peak[1] = 0 THEN NaN ELSE RDiv(RSub(values[k], peak), peak)

(* drawdowns.min() *)
MinDrawdown(values, n) ==
    LET ds == {Drawdown(values, k) : k \in 1..n}
    IN  IF \E d \in ds : IsNaN(d) THEN NaN
        ELSE CHOOSE d \in ds : \A e \in ds : RLe(d, e)

CalcMaxDrawdown(values) ==
    IF Len(values) = 0 THEN Zero
    ELSE LET m == MinDrawdown(values, Len(values))
         IN  IF IsNaN(m) THEN NaN ELSE RAbs(m)

RECURSIVE SumPnl(_, _)
SumPnl(ts, k) == IF k = 0 THEN Zero ELSE RAdd(ts[k].pnl, SumPnl(ts, k - 1))

PureTrades(ts) == SelectSeq(ts, LAMBDA t : t.direction # "Rebalance")

CalcTradeStats(ts) ==
    LET pure == PureTrades(ts)
        wins == SelectSeq(pure, LAMBDA t : RLt(Zero, t.pnl))
        losses == SelectSeq(pure, LAMBDA t : RLe(t.pnl, Zero))
        avg_win == IF Len(wins) > 0
                   THEN RDiv(SumPnl(wins, Len(wins)), RInt(Len(wins))) ELSE Zero
        avg_loss == IF Len(losses) > 0
                    THEN RAbs(RDiv(SumPnl(losses, Len(losses)), RInt(Len(losses))))
                    ELSE Zero
        total_loss == RAbs(SumPnl(losses, Len(losses)))
    IN  IF Len(pure) = 0
        THEN [total_trades |-> 0, win_rate |-> Zero,
              profit_loss_ratio |-> Zero, profit_factor |-> Zero]
        ELSE [total_trades |-> Len(pure),
              win_rate |-> RMul(Frac(Len(wins), Len(pure)), RInt(100)),
              profit_loss_ratio |-> IF RLt(Zero, avg_loss)
                                    THEN RDiv(avg_win, avg_loss) ELSE Zero,
              profit_factor |-> IF RLt(Zero, total_loss)
                                THEN RDiv(SumPnl(wins, Len(wins)), total_loss)
                                ELSE "inf"]

FinalValue(curve, c) ==
    IF Len(curve) > 0 THEN curve[Len(curve)].value ELSE c.initial_cash

TotalReturn(final_value, c) == RSub(RDiv(final_value, c.initial_cash), One)

(* cagr = (final_value / initial_cash) ** (1 / years) - 1 with              *)
(* years = max(days / 365.25, 0.01).  The power is irrational in general   *)
(* and is left unevaluated: the figure is carried as its two operands.     *)
CalcCagr(final_value, c, days) ==
    [base |-> RDiv(final_value, c.initial_cash),
     years |-> RMax(Frac(days * 4, 1461), Frac(1, 100))]

(* pd.Series(values).pct_change().dropna() *)
PctChange(values) ==
    [k \in 1..(Len(values) - 1) |->
        RDiv(RSub(values[k + 1], values[k]), values[k])]

(* _calc_sharpe: 0 for fewer than two values and for returns without       *)
(* spread; NaN for two values, whose single return has no sample standard  *)
(* deviation (NaN == 0 is false); otherwise mean and deviation are         *)
(* irrational in general and the figure is carried as the returns it is    *)
(* computed from.                                                          *)
CalcSharpe(values) ==
    IF Len(values) < 2 THEN Zero
    ELSE IF Len(values) = 2 THEN NaN
    ELSE IF \A k \in 1..(Len(values) - 1) : PctChange(values)[k] = PctChange(values)[1]
         THEN Zero
         ELSE [returns |-> PctChange(values)]

(* The forced close after the loop. *)
ForcedCloseDue(s) == s.pos # 0 /\ RLt(Zero, s.cash) /\ NPeriods > 0

(* Variant: the forced close exits at the last price itself. *)
ForcedCloseNoSlippage(s, c) ==
    [ClosePosition(s, c, PriceAt(NPeriods - 1), DateAt(NPeriods - 1))
       EXCEPT !.pos = s.pos, !.units = s.units]

ForcedClose(s, c) ==
    LET final_price == PriceAt(NPeriods - 1)
        exit_p == IF s.pos = 1 THEN SlipDown(final_price, c)
                  ELSE SlipUp(final_price, c)
    IN  [ClosePosition(s, c, exit_p, DateAt(NPeriods - 1))
           EXCEPT !.pos = s.pos, !.units = s.units]

-----------------------------------------------------------------------------
(* BacktestEngine.run as a state machine: Start (the length check, the     *)
(* signals, the trimming), one Step per period, Finish (the forced close,  *)
(* the performance figures, the return).                                   *)

(* Variant: any series is long enough. *)
TooShortNever(ps) == FALSE

(* if len(df) < 30: raise ValueError *)
TooShort(ps) == Len(ps) < MinObs

Start ==
    /\ pc = "start"
    /\ IF TooShort(prices)
       THEN /\ pc' = "error"
            /\ UNCHANGED <<Signal_Buy, Signal_Sell, start_idx>>
       ELSE /\ Signal_Buy' = BuySignal(cfg, prices)
            /\ Signal_Sell' = SellSignal(cfg, prices)
            /\ start_idx' = StartIdx(cfg)
            /\ pc' = IF StartIdx(cfg) >= Len(prices) THEN "ended" ELSE "loop"
    /\ cash' = cfg.initial_cash
    /\ pos' = 0
    /\ entry_price' = Zero
    /\ entry_date' = NoDate
    /\ units' = Zero
    /\ equity_curve' = <<>>
    /\ trades' = <<>>
    /\ i' = 0
    /\ UNCHANGED <<cfg, dates, prices, result, opt>>

Step ==
    /\ pc = "loop"
    /\ LET s == AccrueYield(Locals, cfg, i)
           current_equity == CurrentEquity(s, PriceAt(i))
       IN  IF IsLiquidation(s, cfg, current_equity)
           THEN /\ equity_curve' = Append(equity_curve,
                                     LiquidationPoint(DateAt(i), current_equity))
                /\ cash' = s.cash
                /\ pc' = "broke"
                /\ UNCHANGED <<pos, entry_price, entry_date, units, trades, i>>
           ELSE LET n == AfterPeriod(s, cfg, i, current_equity)
                IN  /\ equity_curve' = Append(equity_curve,
                                         EquityPoint(DateAt(i), current_equity))
                    /\ cash' = n.cash
                    /\ pos' = n.pos
                    /\ entry_price' = n.entry_price
                    /\ entry_date' = n.entry_date
                    /\ units' = n.units
                    /\ trades' = n.trades
                    /\ i' = i + 1
                    /\ pc' = IF i + 1 = NPeriods THEN "ended" ELSE "loop"
    /\ UNCHANGED <<cfg, dates, prices, Signal_Buy, Signal_Sell, start_idx,
                   result, opt>>

Finish ==
    /\ pc \in {"broke", "ended"}
    /\ LET s == IF ForcedCloseDue(Locals) THEN ForcedClose(Locals, cfg) ELSE Locals
           final_value == FinalValue(equity_curve, cfg)
       IN  /\ cash' = s.cash
           /\ trades' = s.trades
           /\ IF NPeriods = 0
              THEN \* df['date'].iloc[-1] on the empty trimmed frame: IndexError
                   /\ pc' = "error"
                   /\ result' = result
              ELSE /\ pc' = "done"
                   /\ result' = [status |-> "returned",
                                 final_value |-> final_value,
                                 total_return |-> TotalReturn(final_value, cfg),
                                 cagr |-> CalcCagr(final_value, cfg,
                                            DateAt(NPeriods - 1) - DateAt(0)),
                                 mdd |-> CalcMaxDrawdown(Values(equity_curve)),
                                 sharpe |-> CalcSharpe(Values(equity_curve)),
                                 equity_curve |-> equity_curve,
                                 trades |-> s.trades,
                                 trade_stats |-> CalcTradeStats(s.trades)]
    /\ UNCHANGED <<cfg, dates, prices, Signal_Buy, Signal_Sell, start_idx, i,
                   pos, entry_price, entry_date, units, equity_curve, opt>>

-----------------------------------------------------------------------------
(* Inputs.                                                                 *)

TailLen == 3

Lengths == {MinObs - 1, MinObs}
BasePrices == {100}
TailPrices == {60, 100, 120}
StartDays == {3, 19}

Quarter == Frac(1, 4)
DefaultYield == Frac(1, 25)
InputYield == Frac(63, 1000)

Config(cash0, mode, fast, slow, lev, cost, dir, reb, yld) ==
    [initial_cash |-> RInt(cash0), leverage |-> RInt(lev), fee_rate |-> cost,
     slippage |-> cost, strategy_mode |-> mode, ma_fast |-> fast,
     ma_slow |-> slow, trade_direction |-> dir, do_rebalance |-> reb,
     enable_yield |-> yld, annual_yield |-> InputYield]

Windows == {<<2, 3>>, <<3, 2>>}
CostLevels == {<<1, Zero>>, <<3, Zero>>, <<3, Quarter>>}
Directions == {"long-only", "long-short"}

(* <<do_rebalance, enable_yield>> *)
RebalanceYield == {<<TRUE, FALSE>>, <<FALSE, FALSE>>, <<FALSE, TRUE>>}

BuyHoldConfigs ==
    {Config(1000, "buy-hold", 20, 60, cl[1], cl[2], "long-only", ry[1], ry[2]) :
        cl \in CostLevels, ry \in RebalanceYield}

MaConfigs ==
    {Config(1000, mode, w[1], w[2], cl[1], cl[2], dir, reb, FALSE) :
        mode \in {"single-ma", "dual-ma"}, w \in Windows, cl \in CostLevels,
        dir \in Directions, reb \in BOOLEAN}

Configs == BuyHoldConfigs \cup MaConfigs

DailyDates(first, n) == [k \in 1..n |-> first + (k - 1)]

TailSeries(base, n, tail) ==
    [k \in 1..n |-> IF k <= n - Len(tail) THEN base ELSE tail[k - (n - Len(tail))]]

OptIdle == [pc |-> "idle"]

InitLocals ==
    /\ pc = "start"
    /\ Signal_Buy = <<>>
    /\ Signal_Sell = <<>>
    /\ start_idx = 0
    /\ i = 0
    /\ cash = Zero
    /\ pos = 0
    /\ entry_price = Zero
    /\ entry_date = NoDate
    /\ units = Zero
    /\ equity_curve = <<>>
    /\ trades = <<>>
    /\ result = NoResult
    /\ opt = OptIdle

Init ==
    /\ cfg \in Configs
    /\ \E n \in Lengths, first \in StartDays, base \in BasePrices,
          tail \in [1..TailLen -> TailPrices] :
          /\ dates = DailyDates(first, n)
          /\ prices = TailSeries(base, n, tail)
    /\ InitLocals

(* The 40-day scenario: prices 100, 101, ..., 139 on consecutive days,     *)
(* buy-hold, leverage 1, no fee, no slippage, the other fields at their    *)
(* defaults (do_rebalance = True, enable_yield = False, long-only).        *)
ScenarioConfig ==
    [Config(100000, "buy-hold", 20, 60, 1, Zero, "long-only", TRUE, FALSE)
        EXCEPT !.annual_yield = DefaultYield]

InitRising ==
    /\ cfg = ScenarioConfig
    /\ \E first \in 0..364 :
          /\ dates = DailyDates(first, 40)
          /\ prices = [k \in 1..40 |-> 99 + k]
    /\ InitLocals

(* A flat series (every price 100) under single-ma with any window. *)
FlatConfigs ==
    {Config(1000, "single-ma", fast, 60, cl[1], cl[2], dir, reb, FALSE) :
        fast \in 1..(MinObs + 2), cl \in CostLevels, dir \in Directions,
        reb \in BOOLEAN}

InitFlat ==
    /\ cfg \in FlatConfigs
    /\ \E n \in {MinObs, MinObs + 1}, first \in StartDays :
          /\ dates = DailyDates(first, n)
          /\ prices = [k \in 1..n |-> 100]
    /\ InitLocals

(* Series that move at the head, where the moving averages are still       *)
(* undefined, under every small pair of windows.                           *)
HeadLen == 4

SignalConfigs ==
    {Config(1000, mode, fast, slow, 1, Zero, "long-short", FALSE, FALSE) :
        mode \in {"single-ma", "dual-ma"}, fast \in 1..HeadLen,
        slow \in 1..HeadLen}

HeadSeries(base, n, head) ==
    [k \in 1..n |-> IF k <= Len(head) THEN head[k] ELSE base]

InitHead ==
    /\ cfg \in SignalConfigs
    /\ \E base \in BasePrices, head \in [1..HeadLen -> TailPrices] :
          /\ dates = DailyDates(0, MinObs)
          /\ prices = HeadSeries(base, MinObs, head)
    /\ InitLocals

Next == Start \/ Step \/ Finish

Spec == Init /\ [][Next]_vars
SpecRising == InitRising /\ [][Next]_vars
SpecFlat == InitFlat /\ [][Next]_vars
SpecHead == InitHead /\ [][Next]_vars

(* The engine's variables when no run is under way. *)
EngineIdleAt(where) ==
    /\ cfg = ScenarioConfig
    /\ dates = <<>>
    /\ prices = <<>>
    /\ pc = where
    /\ Signal_Buy = <<>>
    /\ Signal_Sell = <<>>
    /\ start_idx = 0
    /\ i = 0
    /\ cash = Zero
    /\ pos = 0
    /\ entry_price = Zero
    /\ entry_date = NoDate
    /\ units = Zero
    /\ trades = <<>>
    /\ result = NoResult

TypeOK == pc \in {"start", "loop", "broke", "ended", "done", "error", "idle", "mdd"}

-----------------------------------------------------------------------------
(* _calc_max_drawdown on its own: any short sequence of equity values,     *)
(* held in equity_curve, and one call.                                     *)
MddLen == 4

MddValues == {-1, 0, 1, 2, 3}

CurveOf(vs) == [k \in 1..Len(vs) |-> [date |-> Strftime(k - 1), value |-> RInt(vs[k])]]

InitDrawdown ==
    /\ EngineIdleAt("mdd")
    /\ opt = OptIdle
    /\ \E n \in 0..MddLen : \E vs \in [1..n -> MddValues] : equity_curve = CurveOf(vs)

CalcMdd ==
    /\ pc = "mdd"
    /\ pc' = "done"
    /\ result' = [status |-> "returned", mdd |-> CalcMaxDrawdown(Values(equity_curve))]
    /\ UNCHANGED <<cfg, dates, prices, Signal_Buy, Signal_Sell, start_idx, i, cash,
                   pos, entry_price, entry_date, units, equity_curve, trades, opt>>

NextDrawdown == CalcMdd

SpecDrawdown == InitDrawdown /\ [][NextDrawdown]_vars

-----------------------------------------------------------------------------
(* StrategyOptimizer.run.  The variable opt holds the optimizer's fields   *)
(* and the locals of run(); opt.engine is the environment: what a          *)
(* BacktestEngine built on self.data returns (or that it raises) for a     *)
(* strategy, window and leverage.                                          *)

TopN == 10
OptInitialCash == 100000
LiquidatedBelow == 15000

Strategies == <<"buy-hold", "single-ma">>
SweepDirections == <<"long-only">>
Dash == <<>>

GetStrategyName(strategy) ==
    IF strategy = "buy-hold" THEN "AlwaysLong"
    ELSE IF strategy = "single-ma" THEN "SingleMA"
    ELSE IF strategy = "dual-ma" THEN "DualMA"
    ELSE strategy

GetDirectionName(direction) ==
    IF direction = "long-only" THEN "LongOnly"
    ELSE IF direction = "long-short" THEN "LongAndShort"
    ELSE direction

(* list(range(lo, stop, step)) for step # 0; range() raises ValueError for *)
(* step = 0                                                                *)
RECURSIVE PyRange(_, _, _)
PyRange(lo, stop, step) ==
    IF step > 0
    THEN IF lo >= stop THEN <<>> ELSE <<lo>> \o PyRange(lo + step, stop, step)
    ELSE IF lo <= stop THEN <<>> ELSE <<lo>> \o PyRange(lo + step, stop, step)

(* The combination the nested loops reach after k earlier ones. *)
ComboAt(o, k) ==
    LET nd == Len(SweepDirections)
        ns == Len(Strategies)
        nl == Len(o.lev_values)
    IN  [ma_period |-> o.ma_values[(k \div (nd * ns * nl)) + 1],
         leverage  |-> o.lev_values[((k \div (nd * ns)) % nl) + 1],
         strategy  |-> Strategies[((k \div nd) % ns) + 1],
         direction |-> SweepDirections[(k % nd) + 1]]

TotalCombinations(o) ==
    Len(o.ma_values) * Len(o.lev_values) * Len(Strategies) * Len(SweepDirections)

(* What engine.run() gives for a combination: buy-hold ignores the window. *)
EngineRun(o, combo) ==
    LET key == IF combo.strategy = "buy-hold"
               THEN <<"buy-hold", 0, combo.leverage>>
               ELSE <<combo.strategy, combo.ma_period, combo.leverage>>
    IN  IF key \in DOMAIN o.engine.special THEN o.engine.special[key]
        ELSE o.engine.base[key]

ResultEntry(combo, r) ==
    [strategy |-> GetStrategyName(combo.strategy),
     direction |-> GetDirectionName(combo.direction),
     ma_period |-> IF combo.strategy # "buy-hold" THEN <<combo.ma_period>> ELSE Dash,
     leverage |-> combo.leverage,
     total_return |-> r.total_return,
     cagr |-> r.cagr,
     mdd |-> r.mdd,
     sharpe |-> r.sharpe,
     calmar |-> IF RLt(Zero, r.mdd) THEN RDiv(r.cagr, r.mdd) ELSE Zero,
     is_liquidated |-> RLt(r.final_value, RInt(LiquidatedBelow))]

(* Variant: liquidated combinations are dropped whatever the setting. *)
FilterResultsAlways(results, o) ==
    SelectSeq(SelectSeq(results, LAMBDA r : ~r.is_liquidated),
              LAMBDA r : RLe(r.mdd, o.max_mdd))

FilterResults(results, o) ==
    LET alive == IF o.filter_liquidation
                 THEN SelectSeq(results, LAMBDA r : ~r.is_liquidated)
                 ELSE results
    IN  SelectSeq(alive, LAMBDA r : RLe(r.mdd, o.max_mdd))

(* Variant: every buy-hold entry stays. *)
DedupNone(filtered, seen_buyhold) == filtered

RECURSIVE Dedup(_, _)
Dedup(filtered, seen_buyhold) ==
    IF filtered = <<>> THEN <<>>
    ELSE LET r == Head(filtered)
         IN  IF r.strategy = "AlwaysLong"
             THEN IF r.leverage \notin seen_buyhold
                  THEN <<[r EXCEPT !.ma_period = Dash, !.direction = "-"]>>
                       \o Dedup(Tail(filtered), seen_buyhold \cup {r.leverage})
                  ELSE Dedup(Tail(filtered), seen_buyhold)
             ELSE <<r>> \o Dedup(Tail(filtered), seen_buyhold)

SortKey(target) ==
    IF target \in {"total_return", "cagr", "sharpe", "calmar"} THEN target
    ELSE "total_return"

(* list.sort(key=..., reverse=True) as CPython runs it on a list shorter    *)
(* than 64 entries: the list is reversed, sorted ascending with < on the   *)
(* keys alone (the leading run is found, a strictly descending one is      *)
(* reversed, the rest is inserted by binary search) and reversed again.    *)
(* It is descending and stable when < orders the keys; a NaN key, which    *)
(* is below nothing and has nothing below it, stays where the search       *)
(* leaves it.                                                              *)
Reverse(rs) == [k \in 1..Len(rs) |-> rs[Len(rs) + 1 - k]]

KeyLt(a, b, key) == Lt(a[key], b[key])

RECURSIVE RunEnd(_, _, _, _)
RunEnd(a, k, descending, key) ==
    IF k > Len(a) THEN k - 1
    ELSE IF KeyLt(a[k], a[k - 1], key) = descending
         THEN RunEnd(a, k + 1, descending, key)
         ELSE k - 1

(* count_run: the list with its leading run made ascending, and the run's *)
(* length                                                                  *)
CountRun(a, key) ==
    IF Len(a) < 2 THEN [list |-> a, n |-> Len(a)]
    ELSE LET descending == KeyLt(a[2], a[1], key)
             n == RunEnd(a, 3, descending, key)
         IN  [list |-> IF descending
                       THEN Reverse(SubSeq(a, 1, n)) \o SubSeq(a, n + 1, Len(a))
                       ELSE a,
              n |-> n]

(* the slot binarysort finds for pivot among a[l+1..r] (l, r count from 0) *)
RECURSIVE Bisect(_, _, _, _, _)
Bisect(a, pivot, l, r, key) ==
    IF l >= r THEN l
    ELSE LET p == l + ((r - l) \div 2)
         IN  IF KeyLt(pivot, a[p + 1], key) THEN Bisect(a, pivot, l, p, key)
             ELSE Bisect(a, pivot, p + 1, r, key)

RECURSIVE BinarySort(_, _, _)
BinarySort(a, start, key) ==
    IF start > Len(a) THEN a
    ELSE LET pivot == a[start]
             l == Bisect(a, pivot, 0, start - 1, key)
         IN  Bind(SubSeq(a, 1, l) \o <<pivot>> \o SubSeq(a, l + 1, start - 1)
                      \o SubSeq(a, start + 1, Len(a)),
                  LAMBDA b : BinarySort(b, start + 1, key))

ListSortDesc(rs, key) ==
    Bind(Reverse(rs), LAMBDA reversed :
        Bind(CountRun(reversed, key), LAMBDA run :
            Reverse(BinarySort(run.list, run.n + 1, key))))

(* Variant: the sorted list is thrown away, the order of arrival stays. *)
KeepArrivalOrder(rs, key) == rs

(* dedup_results.sort(key=lambda x: x[sort_key], reverse=True) *)
SortResults(rs, key) == ListSortDesc(rs, key)

StripInternal(r) ==
    [f \in DOMAIN r \ {"is_liquidated"} |-> r[f]]

TopOf(rs) == SubSeq(rs, 1, IF Len(rs) < TopN THEN Len(rs) ELSE TopN)

(* Everything run() does with the collected results. *)
Rank(results, o, tested) ==
    Bind(FilterResults(results, o), LAMBDA filtered :
        Bind(Dedup(filtered, {}), LAMBDA dedup_results :
            Bind(SortResults(dedup_results, SortKey(o.target)), LAMBDA ranked :
                LET stripped == [k \in 1..Len(ranked) |-> StripInternal(ranked[k])]
                IN  [total_tested |-> tested,
                     valid_results |-> Len(stripped),
                     top_results |-> TopOf(stripped)])))

(* lev += self.lev_step on floats.  The sum is rounded to the nearest      *)
(* number with SignificandBits significant bits, ties to the even one (a   *)
(* double has 53); exponent range and subnormals are left out.  A step     *)
(* below half the spacing of the floats around lev is absorbed.            *)
SignificandBits == 4

RECURSIVE Pow2(_)
Pow2(n) == IF n = 0 THEN 1 ELSE 2 * Pow2(n - 1)

(* one doubling or halving of <<scaled, power>> towards [2^(bits-1), 2^bits) *)
ScaleStep(p) ==
    IF RLt(p[1], RInt(Pow2(SignificandBits - 1)))
    THEN <<RMul(p[1], RInt(2)), RMul(p[2], Frac(1, 2))>>
    ELSE <<RMul(p[1], Frac(1, 2)), RMul(p[2], RInt(2))>>

InSignificandRange(p) ==
    /\ RLe(RInt(Pow2(SignificandBits - 1)), p[1])
    /\ RLt(p[1], RInt(Pow2(SignificandBits)))

(* x > 0 as <<scaled, power>> with x = scaled * power and scaled in range *)
RECURSIVE Scale(_)
Scale(p) == IF InSignificandRange(p) THEN p ELSE Bind(ScaleStep(p), Scale)

RoundHalfEven(x) ==
    LET q == x[1] \div x[2]
        r == x[1] % x[2]
    IN  IF 2 * r < x[2] THEN q
        ELSE IF 2 * r > x[2] THEN q + 1
        ELSE IF q % 2 = 0 THEN q ELSE q + 1

RoundScaled(sc) == RMul(RInt(RoundHalfEven(sc[1])), sc[2])

RoundPositive(x) == Bind(Scale(<<x, One>>), RoundScaled)

FloatRound(x) ==
    IF x[1] = 0 THEN Zero
    ELSE IF x[1] < 0 THEN RNeg(RoundPositive(RNeg(x)))
    ELSE RoundPositive(x)

(* lev += self.lev_step, in floating point *)
FloatAdd(x, y) == Bind(RAdd(x, y), FloatRound)

(* The leverage list never outgrows this in the model; the code's grows    *)
(* until memory runs out.                                                  *)
MaxLevs == 6

OptStart ==
    /\ opt.pc = "start"
    /\ IF opt.ma_step = 0
       THEN \* range() arg 3 must not be zero: ValueError
            opt' = [opt EXCEPT !.pc = "error", !.results = <<>>]
       ELSE opt' = [opt EXCEPT
                      !.pc = "lev",
                      !.results = <<>>,
                      !.ma_values = PyRange(opt.ma_range[1], opt.ma_range[2] + 1,
                                            opt.ma_step),
                      !.lev_values = <<>>,
                      !.lev = opt.lev_range[1]]
    /\ UNCHANGED engineVars

(* Variant: the upper bound is left out. *)
WhileLevBelow(o) == RLt(o.lev, o.lev_range[2])

(* while lev <= self.lev_range[1] *)
WhileLev(o) == RLe(o.lev, o.lev_range[2])

OptLev ==
    /\ opt.pc = "lev"
    /\ IF WhileLev(opt)
       THEN /\ Len(opt.lev_values) < MaxLevs
            /\ opt' = [opt EXCEPT !.lev_values = Append(@, opt.lev),
                                    !.lev = FloatAdd(@, opt.lev_step)]
       ELSE opt' = [opt EXCEPT !.pc = "sweep", !.tested = 0]
    /\ UNCHANGED engineVars

(* Variant: a combination that raised is recorded with empty figures. *)
CollectFailures(results, combo, r) ==
    IF r.status = "raised"
    THEN Append(results, ResultEntry(combo, [final_value |-> Zero, total_return |-> Zero,
                                             cagr |-> Zero, mdd |-> Zero, sharpe |-> Zero]))
    ELSE Append(results, ResultEntry(combo, r))

(* the try block: an entry is appended unless the engine raised *)
Collect(results, combo, r) ==
    IF r.status = "raised" THEN results ELSE Append(results, ResultEntry(combo, r))

OptEval ==
    /\ opt.pc = "sweep"
    /\ opt.tested < TotalCombinations(opt)
    /\ LET combo == ComboAt(opt, opt.tested)
           r == EngineRun(opt, combo)
       IN  opt' = [opt EXCEPT
                     !.tested = @ + 1,
                     !.results = Collect(@, combo, r)]
    /\ UNCHANGED engineVars

OptFinish ==
    /\ opt.pc = "sweep"
    /\ opt.tested = TotalCombinations(opt)
    /\ opt' = [opt EXCEPT !.pc = "done",
                          !.output = Rank(opt.results, opt, opt.tested)]
    /\ UNCHANGED engineVars

(* Inputs of the optimizer: the grid, the settings and the environment.    *)
GridMa == 3

MaUniverse == {10 * k : k \in 1..GridMa}
LevUniverse == {RInt(1), RInt(2), RInt(3)}

EngineKeys ==
    {<<"buy-hold", 0, l>> : l \in LevUniverse}
        \cup {<<"single-ma", m, l>> : m \in MaUniverse, l \in LevUniverse}

Returned(tr, cagr, mdd, sharpe) ==
    [status |-> "returned",
     final_value |-> RMul(RInt(OptInitialCash), RAdd(One, tr)),
     total_return |-> tr, cagr |-> cagr, mdd |-> mdd, sharpe |-> sharpe]

Raised == [status |-> "raised"]
Liquidated == Returned(RInt(-1), RInt(-1), One, RInt(-1))
DeepDrawdown == Returned(Frac(1, 20), Frac(1, 50), Frac(3, 5), Frac(1, 10))
Star == Returned(Frac(9, 10), Frac(2, 5), Frac(1, 5), RInt(2))
Unmoved == Returned(Zero, Zero, Zero, Zero)

(* A window two rows short of the series: two equity points, one return,   *)
(* whose standard deviation, and with it the Sharpe ratio, is NaN.         *)
TwoPoints == Returned(Frac(1, 50), Frac(1, 4), Zero, NaN)

(* A flat series: nothing ever trades. *)
FlatWorld == [key \in EngineKeys |-> Unmoved]

(* Every combination ends differently. *)
TrendWorld ==
    [key \in EngineKeys |->
        IF key[1] = "buy-hold"
        THEN Returned(RMul(key[3], Frac(1, 20)), RMul(key[3], Frac(1, 100)),
                      RMul(key[3], Frac(1, 10)), RMul(key[3], Frac(1, 5)))
        ELSE Returned(RAdd(Frac(key[2], 100), RMul(key[3], Frac(1, 100))),
                      RSub(RMul(key[3], Frac(1, 10)), Frac(key[2], 1000)),
                      RMul(key[3], Frac(1, 10)),
                      RAdd(Frac(key[2], 100), RMul(key[3], Frac(3, 10))))]

(* Only the leverage matters: the windows tie. *)
LeverageWorld ==
    [key \in EngineKeys |->
        Returned(RMul(key[3], Frac(1, 10)), RMul(key[3], Frac(1, 25)),
                 RMul(key[3], Frac(3, 20)), key[3])]

(* The highest leverage is liquidated, the longest window draws down deep. *)
RiskyWorld ==
    [key \in EngineKeys |->
        IF key[3] = RInt(3) THEN Liquidated
        ELSE IF key[1] = "single-ma" /\ key[2] = 10 * GridMa THEN DeepDrawdown
        ELSE TrendWorld[key]]

Worlds == {FlatWorld, TrendWorld, LeverageWorld, RiskyWorld}
SpecialOutcomes == {Raised, Liquidated, DeepDrawdown, Star, TwoPoints}

(* The two-point run is one of a moving-average window; buy-hold starts at  *)
(* the first row.                                                          *)
Overrides ==
    {x \in EngineKeys \X SpecialOutcomes : x[2] = TwoPoints => x[1][1] = "single-ma"}

Engines ==
    {[base |-> w, special |-> <<>>] : w \in Worlds}
        \cup {[base |-> w, special |-> [k \in {x[1]} |-> x[2]]] :
                 w \in Worlds, x \in Overrides}

Grids ==
    {[ma_range |-> <<10, 10 * GridMa>>, ma_step |-> 10,
      lev_range |-> <<RInt(1), RInt(3)>>, lev_step |-> One],
     [ma_range |-> <<10, 10>>, ma_step |-> 10,
      lev_range |-> <<RInt(1), RInt(2)>>, lev_step |-> One]}

Targets == {"total_return", "cagr", "sharpe", "calmar", "win_rate"}

EngineIdle == EngineIdleAt("idle") /\ equity_curve = <<>>

InitOpt ==
    /\ EngineIdle
    /\ \E g \in Grids, e \in Engines, target \in Targets,
          max_mdd \in {Frac(1, 2), One}, filter_liquidation \in BOOLEAN :
          opt = [pc |-> "start", ma_range |-> g.ma_range, ma_step |-> g.ma_step,
                 lev_range |-> g.lev_range, lev_step |-> g.lev_step,
                 max_mdd |-> max_mdd, filter_liquidation |-> filter_liquidation,
                 target |-> target, engine |-> e,
                 results |-> <<>>, ma_values |-> <<>>, lev_values |-> <<>>,
                 lev |-> Zero, tested |-> 0, output |-> NoResult]

NextOpt == OptStart \/ OptLev \/ OptEval \/ OptFinish

SpecOpt == InitOpt /\ [][NextOpt]_vars

(* Grids of every kind for the leverage loop: steps that are negative,     *)
(* zero, absorbed at once (below half the spacing of the floats at 1),     *)
(* absorbed after one addition (from the float below 2, by the spacing     *)
(* below 2, which is half the spacing above it) and ordinary; bounds in    *)
(* and out of order; window steps that are positive, zero and negative.    *)
Spacing == Frac(1, Pow2(SignificandBits - 1))

LevSteps == {RInt(-1), Zero, Frac(1, Pow2(SignificandBits + 1)), Spacing, Frac(1, 2), One}

LevBounds == {RInt(1), RSub(RInt(2), Spacing), RInt(2), RInt(3)}

LevFloats == {Frac(k, Pow2(SignificandBits - 1)) :
                 k \in Pow2(SignificandBits - 1)..(3 * Pow2(SignificandBits - 1))}

LevEngine ==
    [base |-> [key \in {<<"buy-hold", 0, l>> : l \in LevFloats}
                        \cup {<<"single-ma", m, l>> : m \in {10, 20}, l \in LevFloats}
                 |-> IF RLe(RInt(2), key[3]) THEN Liquidated
                     ELSE IF key[1] = "buy-hold" THEN LeverageWorld[<<"buy-hold", 0, One>>]
                     ELSE Unmoved],
     special |-> <<>>]

InitLev ==
    /\ EngineIdle
    /\ \E lo \in LevBounds, hi \in LevBounds, step \in LevSteps,
          ma_step \in {-10, 0, 10}, ma_hi \in {10, 20} :
          /\ (step = Spacing) => (lo = RSub(RInt(2), Spacing))
          /\ opt = [pc |-> "start", ma_range |-> <<10, ma_hi>>, ma_step |-> ma_step,
                    lev_range |-> <<lo, hi>>, lev_step |-> step,
                    max_mdd |-> Frac(1, 2), filter_liquidation |-> TRUE,
                    target |-> "total_return", engine |-> LevEngine,
                    results |-> <<>>, ma_values |-> <<>>, lev_values |-> <<>>,
                    lev |-> Zero, tested |-> 0, output |-> NoResult]

(* run() is one thread that keeps going: every step that can be taken is.  *)
SpecLev == InitLev /\ [][NextOpt]_vars /\ WF_vars(NextOpt)

-----------------------------------------------------------------------------
(* Properties of BacktestEngine.run.                                       *)

Running == pc \in {"loop", "broke", "ended", "done"}

(* The loop was left by the liquidation break. *)
Broke == pc = "broke" \/ (pc = "done" /\ i < NPeriods)

ValidStart ==
    IF cfg.strategy_mode = "buy-hold" THEN 0
    ELSE IF cfg.strategy_mode = "single-ma" THEN cfg.ma_fast
    ELSE cfg.ma_slow

(* cash (with the day's carry) + unrealized P&L of the period about to run *)
MarkToMarket ==
    RAdd(AccrueYield(Locals, cfg, i).cash,
         RMul(RMul(RSub(RInt(prices[ValidStart + i + 1]), entry_price), units),
              RInt(pos)))

ZeroPointToday == [date |-> Strftime(dates[ValidStart + i + 1]), value |-> Zero]

(* C1: a period with an open position and equity below 15% of initial_cash *)
(* appends one EquityPoint of value 0 and ends the loop; that point stays  *)
(* the last one, final_value is 0 and total_return is -1.                  *)
C1_LiquidationEndsCurve ==
    [][ /\ (pc = "loop" /\ pos # 0
            /\ RLt(MarkToMarket, RMul(cfg.initial_cash, Frac(15, 100))))
           => /\ pc' = "broke"
              /\ i' = i
              /\ equity_curve' = Append(equity_curve, ZeroPointToday)
        /\ pc = "broke"
           => /\ pc' = "done"
              /\ Len(equity_curve) = i + 1
              /\ equity_curve[i + 1] = ZeroPointToday
              /\ equity_curve' = equity_curve
              /\ result'.equity_curve = equity_curve
              /\ result'.final_value = Zero
              /\ result'.total_return = RInt(-1) ]_vars

C1_Witness ==
    /\ pc = "done"
    /\ i + 1 < NPeriods
    /\ Len(result.equity_curve) = i + 1
    /\ result.final_value = Zero
    /\ result.total_return = RInt(-1)

(* C2: after a liquidation the ledger and cash stay as they were at the    *)
(* liquidation, and the returned trades are that ledger.                   *)
C2_NoCloseAfterLiquidation ==
    [][pc = "broke" => (trades' = trades /\ cash' = cash
                        /\ result'.trades = trades)]_vars

(* C3: every EquityPoint has value >= 0. *)
C3_EquityNonNegative ==
    \A k \in 1..Len(equity_curve) : RLe(Zero, equity_curve[k].value)

(* C4: one EquityPoint per simulated period, in the order of the series:   *)
(* the k-th point carries the date of the k-th period from the valid start *)
(* index; the curve ends at the series end, or at the liquidation period.  *)
C4_OnePointPerPeriod ==
    Running =>
        /\ \A k \in 1..Len(equity_curve) :
              /\ ValidStart + k <= Len(dates)
              /\ equity_curve[k].date = Strftime(dates[ValidStart + k])
        /\ pc = "loop" => Len(equity_curve) = i
        /\ Broke => Len(equity_curve) = i + 1
        /\ (pc \in {"ended", "done"} /\ ~Broke)
              => Len(equity_curve) = Len(prices) - ValidStart
        /\ pc = "done" => result.equity_curve = equity_curve

C4_Witness ==
    /\ pc = "done"
    /\ Broke
    /\ cfg.strategy_mode = "dual-ma"
    /\ Len(equity_curve) >= 2
    /\ Len(equity_curve) < Len(prices) - ValidStart

MonthChanges ==
    Cardinality({k \in 2..Len(dates) : Month(dates[k]) # Month(dates[k - 1])})

RisingReturn ==
    /\ result.total_return = Frac(39, 100)
    /\ result.mdd = Zero

ForcedCloseOfRising(t) ==
    /\ t.direction = "Long"
    /\ t.entry_date = Strftime(dates[1])
    /\ t.exit_date = Strftime(dates[40])
    /\ t.exit_price = RInt(139)

(* C5 as stated: total_return 0.39, mdd 0 and a trades list of exactly one *)
(* entry, the forced close.                                                *)
C5_Original ==
    /\ pc # "error"
    /\ pc = "done" =>
          /\ RisingReturn
          /\ Len(result.trades) = 1
          /\ ForcedCloseOfRising(result.trades[1])

(* C5 amended: total_return 0.39, mdd 0, exactly one entry that is not a   *)
(* Rebalance, the forced close, which is the last entry; before it one     *)
(* Rebalance entry of pnl 0 for each month boundary the 40 days cross.     *)
C5_RisingScenario ==
    /\ pc # "error"
    /\ pc = "done" =>
          /\ RisingReturn
          /\ Len(PureTrades(result.trades)) = 1
          /\ ForcedCloseOfRising(result.trades[Len(result.trades)])
          /\ Len(result.trades) = 1 + MonthChanges
          /\ MonthChanges \in {1, 2}
          /\ \A k \in 1..(Len(result.trades) - 1) :
                /\ result.trades[k].direction = "Rebalance"
                /\ result.trades[k].pnl = Zero

C5_Witness ==
    /\ pc = "done"
    /\ Len(result.trades) = 3
    /\ result.trade_stats.total_trades = 1
    /\ result.final_value = RInt(139000)

(* C6: under buy-hold the buy signal is true at index 0 only, the sell     *)
(* signal nowhere; the ledger without Rebalance entries has at most one    *)
(* entry, recorded by the forced close and exiting on the last date.       *)
C6_BuyHoldLedger ==
    (Running /\ cfg.strategy_mode = "buy-hold") =>
        /\ Len(Signal_Buy) = Len(prices)
        /\ Len(Signal_Sell) = Len(prices)
        /\ \A k \in 1..Len(prices) :
              /\ Signal_Buy[k] <=> (k = 1)
              /\ ~Signal_Sell[k]
        /\ Len(PureTrades(trades)) <= 1
        /\ Len(PureTrades(trades)) = 1 =>
              /\ pc = "done"
              /\ trades[Len(trades)].direction # "Rebalance"
              /\ trades[Len(trades)].exit_date = Strftime(dates[Len(dates)])

C6_Witness ==
    /\ pc = "done"
    /\ cfg.strategy_mode = "buy-hold"
    /\ cfg.leverage = RInt(3)
    /\ Len(PureTrades(trades)) = 1
    /\ Len(trades) >= 2

TradeSide(t) == IF t.direction = "Long" THEN 1 ELSE -1

(* gross price P&L of a recorded trade minus its exit fee *)
TradeNet(t) ==
    RSub(RMul(RMul(RSub(t.exit_price, t.entry_price), t.units), RInt(TradeSide(t))),
         RMul(RMul(t.exit_price, t.units), cfg.fee_rate))

RECURSIVE SumNet(_, _)
SumNet(ts, k) == IF k = 0 THEN Zero ELSE RAdd(TradeNet(ts[k]), SumNet(ts, k - 1))

(* C7: without rebalancing and without yield, cash is at every point of    *)
(* the run initial_cash plus the sum over the recorded trades of gross     *)
(* P&L minus exit fee; an entry, which records no trade, leaves cash alone.*)
C7_CashConservation ==
    (Running /\ ~cfg.do_rebalance /\ ~cfg.enable_yield) =>
        /\ cash = RAdd(cfg.initial_cash, SumNet(trades, Len(trades)))
        /\ \A k \in 1..Len(trades) : trades[k].pnl = TradeNet(trades[k])

C7_Witness ==
    /\ pc = "done"
    /\ ~cfg.do_rebalance
    /\ ~cfg.enable_yield
    /\ cfg.fee_rate # Zero
    /\ Len(trades) >= 2
    /\ pos # 0
    /\ cash # cfg.initial_cash

(* C8: under single-ma and dual-ma no index has both signals, and no index *)
(* below the valid start index has either.                                 *)
C8_SignalsExclusive ==
    (Running /\ cfg.strategy_mode \in {"single-ma", "dual-ma"}) =>
        /\ Len(Signal_Buy) = Len(prices)
        /\ Len(Signal_Sell) = Len(prices)
        /\ \A k \in 1..Len(prices) :
              /\ ~(Signal_Buy[k] /\ Signal_Sell[k])
              /\ k <= ValidStart => (~Signal_Buy[k] /\ ~Signal_Sell[k])

C8_Witness ==
    /\ Running
    /\ cfg.strategy_mode = "dual-ma"
    /\ cfg.ma_fast > cfg.ma_slow
    /\ \E k \in 1..Len(prices) : Signal_Buy[k]
    /\ \E k \in 1..Len(prices) : Signal_Sell[k]
    /\ \E k \in 1..ValidStart : prices[k] # prices[1]

(* C9: on a flat series single-ma with any window returns a result with no *)
(* signal, no trade and final_value = initial_cash.                        *)
C9_FlatSeriesReturns ==
    /\ pc # "error"
    /\ pc = "done" =>
          /\ \A k \in 1..Len(prices) : ~Signal_Buy[k] /\ ~Signal_Sell[k]
          /\ result.trades = <<>>
          /\ result.final_value = cfg.initial_cash

-----------------------------------------------------------------------------
(* Properties of StrategyOptimizer.run.                                    *)

AllOrders(n) ==
    {p \in [1..n -> 1..n] : \A a, b \in 1..n : p[a] = p[b] => a = b}

SwapNext(n, a) ==
    [k \in 1..n |-> IF k = a THEN a + 1 ELSE IF k = a + 1 THEN a ELSE k]

(* Orders of arrival: every permutation of a short list; of a longer one   *)
(* the exchanges of two neighbours (which generate every permutation), the *)
(* rotations and the reversal.                                             *)
Reorderings(n) ==
    IF n <= 4 THEN AllOrders(n)
    ELSE {SwapNext(n, a) : a \in 1..(n - 1)}
           \cup {[k \in 1..n |-> ((k + r - 1) % n) + 1] : r \in 1..(n - 1)}
           \cup {[k \in 1..n |-> n + 1 - k]}

Reordered(rs, p) == [k \in 1..Len(rs) |-> rs[p[k]]]

KeysOf(rs, key) == [k \in 1..Len(rs) |-> rs[k][key]]

Ranked(rs) == Rank(rs, opt, opt.tested)

Survivors(rs) == Dedup(FilterResults(rs, opt), {})

NoTies(rs) ==
    \A a, b \in 1..Len(rs) :
        (rs[a] # rs[b]) => rs[a][SortKey(opt.target)] # rs[b][SortKey(opt.target)]

(* every entry's target metric is a number *)
AllNumbers(rs) == \A a \in 1..Len(rs) : ~IsNaN(rs[a][SortKey(opt.target)])

(* C10 as stated: any order of arrival of the per-combination results      *)
(* gives the same top_results and the same valid_results, ties included.   *)
C10_Original ==
    opt.pc = "done" =>
        \A p \in Reorderings(Len(opt.results)) :
            /\ Ranked(Reordered(opt.results, p)).top_results = opt.output.top_results
            /\ Ranked(Reordered(opt.results, p)).valid_results = opt.output.valid_results

(* C10 amended: any order of arrival gives the same valid_results; when    *)
(* every surviving entry's target metric is a number it gives a            *)
(* top_results with the same target-metric values position by position,    *)
(* and the same entries in the same order when no two different surviving  *)
(* entries tie on the target metric.                                       *)
C10_OrderIndependence ==
    opt.pc = "done" =>
        \A p \in Reorderings(Len(opt.results)) :
            LET other == Ranked(Reordered(opt.results, p))
            IN  /\ other.valid_results = opt.output.valid_results
                /\ AllNumbers(Survivors(opt.results)) =>
                      /\ KeysOf(other.top_results, SortKey(opt.target))
                            = KeysOf(opt.output.top_results, SortKey(opt.target))
                      /\ NoTies(Survivors(opt.results))
                            => other.top_results = opt.output.top_results

C10_Witness ==
    /\ opt.pc = "done"
    /\ AllNumbers(Survivors(opt.results))
    /\ opt.output.valid_results > TopN
    /\ NoTies(Survivors(opt.results))
    /\ opt.output.top_results # TopOf([k \in 1..Len(Survivors(opt.results)) |->
                                        StripInternal(Survivors(opt.results)[k])])

(* The grid the nested loops enumerate, and the run of each combination.   *)
GridSize == Len(opt.ma_values) * Len(opt.lev_values) * 2 * 1

RunAt(k) == EngineRun(opt, ComboAt(opt, k))

RaisedBefore(n) == Cardinality({k \in 0..(n - 1) : RunAt(k).status = "raised"})

(* C11: a combination whose engine raises is counted in tested, adds no    *)
(* entry to the results and leaves the sweep running; every combination of *)
(* the grid is evaluated, total_tested is |ma_values| x |lev_values| x 2 x *)
(* 1 and valid_results <= total_tested.                                    *)
C11_SweepSurvivesFailures ==
    [][ /\ (opt.pc = "sweep" /\ opt.tested < GridSize) =>
              /\ opt'.pc = "sweep"
              /\ opt'.tested = opt.tested + 1
              /\ RunAt(opt.tested).status = "raised" => opt'.results = opt.results
              /\ RunAt(opt.tested).status # "raised" =>
                    Len(opt'.results) = Len(opt.results) + 1
        /\ (opt.pc = "sweep" /\ opt.tested >= GridSize) =>
              /\ opt'.pc = "done"
              /\ opt.tested = GridSize
              /\ Len(opt.results) = GridSize - RaisedBefore(GridSize)
              /\ opt'.output.total_tested = GridSize
              /\ opt'.output.valid_results <= opt'.output.total_tested ]_vars

C11_Witness ==
    /\ opt.pc = "done"
    /\ opt.output.total_tested = 2 * GridMa * 3
    /\ RunAt(0).status = "raised"
    /\ RunAt(1).status # "raised"
    /\ Len(opt.results) < opt.output.total_tested
    /\ opt.output.valid_results > 0

(* What tells one combination's run from another's: buy-hold ignores the  *)
(* window.                                                                 *)
ComboKey(c) ==
    <<c.strategy, IF c.strategy = "buy-hold" THEN 0 ELSE c.ma_period, c.leverage>>

EntryKey(e) ==
    IF e.strategy = "AlwaysLong" THEN <<"buy-hold", 0, e.leverage>>
    ELSE <<"single-ma", e.ma_period[1], e.leverage>>

RunOfEntry(e) ==
    EngineRun(opt, [strategy |-> EntryKey(e)[1], ma_period |-> EntryKey(e)[2],
                    leverage |-> e.leverage])

RunLiquidated(r) == RLt(r.final_value, RInt(15000))

Passes(r) ==
    /\ r.status = "returned"
    /\ RLe(r.mdd, opt.max_mdd)
    /\ opt.filter_liquidation => ~RunLiquidated(r)

PassingKeys ==
    {ComboKey(ComboAt(opt, k)) : k \in {j \in 0..(GridSize - 1) : Passes(RunAt(j))}}

Returned_(n) == opt.output.top_results[n]

(* C12: no entry returned or counted has mdd > max_mdd; with               *)
(* filter_liquidation none comes from a run with final_value < 15000;      *)
(* without it a liquidated combination is kept exactly when its mdd <=     *)
(* max_mdd.  valid_results counts the distinct runs that pass.             *)
C12_Filtering ==
    opt.pc = "done" =>
        /\ \A n \in 1..Len(opt.output.top_results) :
              /\ RunOfEntry(Returned_(n)).status = "returned"
              /\ Returned_(n).mdd = RunOfEntry(Returned_(n)).mdd
              /\ ~RLt(opt.max_mdd, Returned_(n).mdd)
              /\ opt.filter_liquidation => ~RunLiquidated(RunOfEntry(Returned_(n)))
        /\ opt.output.valid_results = Cardinality(PassingKeys)
        /\ opt.output.valid_results <= TopN =>
              \A k \in 0..(GridSize - 1) :
                  (RunAt(k).status = "returned" /\ RunLiquidated(RunAt(k))) =>
                      ((\E n \in 1..Len(opt.output.top_results) :
                            EntryKey(Returned_(n)) = ComboKey(ComboAt(opt, k)))
                        <=> (~opt.filter_liquidation /\ RLe(RunAt(k).mdd, opt.max_mdd)))

C12_Witness ==
    /\ opt.pc = "done"
    /\ ~opt.filter_liquidation
    /\ opt.max_mdd = One
    /\ opt.output.valid_results <= TopN
    /\ \E n \in 1..Len(opt.output.top_results) : RunLiquidated(RunOfEntry(Returned_(n)))
    /\ opt.output.valid_results = Cardinality({ComboKey(ComboAt(opt, k)) :
                                                  k \in 0..(GridSize - 1)})

Filtered == FilterResults(opt.results, opt)

BuyHoldEntry(r) == r.strategy = "AlwaysLong"

(* positions of the filtered list f that deduplication keeps *)
KeptOf(f) ==
    {k \in 1..Len(f) :
        BuyHoldEntry(f[k]) =>
            ~\E j \in 1..(k - 1) : BuyHoldEntry(f[j]) /\ f[j].leverage = f[k].leverage}

NthOf(kept, n) == CHOOSE k \in kept : Cardinality({j \in kept : j <= k}) = n

Placeholder(r) ==
    IF BuyHoldEntry(r) THEN [r EXCEPT !.ma_period = Dash, !.direction = "-"] ELSE r

CountOf(rs, Test(_)) == Cardinality({k \in 1..Len(rs) : Test(rs[k])})

(* C13: of the filtered results deduplication keeps, in their order, every *)
(* single-ma entry and the first buy-hold entry of each leverage, the      *)
(* latter with ma_period and direction set to the placeholder; the output  *)
(* counts exactly those and shows at most one buy-hold entry per leverage. *)
C13_Deduplication ==
    opt.pc = "done" =>
        LET f == FilterResults(opt.results, opt)
            kept == KeptOf(f)
            d == Dedup(f, {})
            top == opt.output.top_results
        IN  /\ Len(d) = Cardinality(kept)
            /\ \A n \in 1..Len(d) : d[n] = Placeholder(f[NthOf(kept, n)])
            /\ CountOf(d, LAMBDA r : ~BuyHoldEntry(r))
                  = CountOf(f, LAMBDA r : ~BuyHoldEntry(r))
            /\ opt.output.valid_results = Cardinality(kept)
            /\ \A a, b \in 1..Len(top) :
                  /\ BuyHoldEntry(top[a]) =>
                        (top[a].ma_period = Dash /\ top[a].direction = "-")
                  /\ (BuyHoldEntry(top[a]) /\ BuyHoldEntry(top[b])
                         /\ top[a].leverage = top[b].leverage) => a = b

C13_Witness ==
    /\ opt.pc = "done"
    /\ Cardinality(KeptOf(Filtered)) + 4 <= Len(Filtered)
    /\ CountOf(Filtered, BuyHoldEntry) > CountOf(opt.output.top_results, BuyHoldEntry)
    /\ CountOf(opt.output.top_results, BuyHoldEntry) = 2
    /\ CountOf(opt.output.top_results, LAMBDA r : ~BuyHoldEntry(r)) > 0

Occurrences(rs, e) == Cardinality({k \in 1..Len(rs) : rs[k] = e})

Smaller(a, b) == IF a < b THEN a ELSE b

SortedDesc(rs, key) ==
    \A a, b \in 1..Len(rs) : a < b => Ge(rs[a][key], rs[b][key])

(* C14: top_results is in non-increasing order of the target metric, has   *)
(* min(10, valid_results) entries, all of them surviving entries without   *)
(* the is_liquidated field, and every surviving entry left out has a       *)
(* metric value <= the smallest one returned.                              *)
C14_Ranking ==
    opt.pc = "done" =>
        LET key == SortKey(opt.target)
            d == Survivors(opt.results)
            alive == [k \in 1..Len(d) |-> StripInternal(d[k])]
            top == opt.output.top_results
        IN  /\ key = IF opt.target \in {"cagr", "sharpe", "calmar"}
                     THEN opt.target ELSE "total_return"
            /\ SortedDesc(top, key)
            /\ Len(top) = Smaller(TopN, opt.output.valid_results)
            /\ opt.output.valid_results = Len(d)
            /\ \A n \in 1..Len(top) :
                  /\ "is_liquidated" \notin DOMAIN top[n]
                  /\ Occurrences(top, top[n]) <= Occurrences(alive, top[n])
            /\ \A k \in 1..Len(alive) :
                  Occurrences(top, alive[k]) < Occurrences(alive, alive[k])
                      => Le(alive[k][key], top[Len(top)][key])

(* the same on runs whose target metric is a number throughout *)
C14_RankingOfNumbers ==
    (opt.pc = "done" /\ AllNumbers(Survivors(opt.results))) => C14_Ranking

-----------------------------------------------------------------------------
(* Properties of one period of BacktestEngine.run.                         *)

PriceToday == RInt(prices[ValidStart + i + 1])
DateToday == dates[ValidStart + i + 1]

(* the locals after the day's carry and, when it is due, the rebalance *)
Rebalanced ==
    LET s == AccrueYield(Locals, cfg, i)
    IN  IF RebalanceDue(s, cfg, i)
        THEN Rebalance(s, cfg, PriceToday, DateToday, CurrentEquity(s, PriceToday))
        ELSE s

LastTrade(ts) == ts[Len(ts)]

Opens == pc = "loop" /\ pos' # 0 /\ pos' # pos

(* C15: whenever a position is opened, entry_price is the price with the   *)
(* slippage against the entry, units = leverage * cash / entry_price /     *)
(* (1 + fee_rate) with the cash left by a close of the same period; the    *)
(* entry takes nothing from cash and records no trade.                     *)
C15_EntrySizing ==
    [][ Opens =>
          /\ entry_price' = RMul(PriceToday,
                                 IF pos' = 1 THEN RAdd(One, cfg.slippage)
                                 ELSE RSub(One, cfg.slippage))
          /\ units' = RDiv(RDiv(RMul(cfg.leverage, cash'), entry_price'),
                           RAdd(One, cfg.fee_rate))
          /\ entry_date' = DateToday
          /\ RLt(Zero, cash')
          /\ pos' = -1 => cfg.trade_direction = "long-short"
          /\ pos = 0 => (cash' = cash /\ trades' = trades)
          /\ pos # 0 =>
                /\ pos' = -pos
                /\ Len(trades') = Len(Rebalanced.trades) + 1
                /\ SubSeq(trades', 1, Len(trades') - 1) = Rebalanced.trades
                /\ LastTrade(trades').direction = (IF pos = 1 THEN "Long" ELSE "Short")
                /\ cash' = RAdd(Rebalanced.cash, LastTrade(trades').pnl) ]_vars

C15_Witness ==
    /\ pc \in {"loop", "ended"}
    /\ pos = -1
    /\ cfg.fee_rate # Zero
    /\ Len(trades) >= 1
    /\ LastTrade(trades).direction = "Long"
    /\ LastTrade(trades).exit_date = Strftime(entry_date)
    /\ cash # cfg.initial_cash
    /\ units = RDiv(RDiv(RMul(cfg.leverage, cash), entry_price), RAdd(One, cfg.fee_rate))

(* the conditions of the monthly rebalance, on the locals as the period    *)
(* finds them (cash with the day's carry)                                  *)
MonthTurned == i > 0 /\ Month(DateToday) # Month(dates[ValidStart + i])

RebalanceConditions ==
    /\ cfg.do_rebalance
    /\ MonthTurned
    /\ pos # 0
    /\ RLt(Zero, AccrueYield(Locals, cfg, i).cash)

NewTrades == SubSeq(trades', Len(trades) + 1, Len(trades'))

RebalanceApplied == Len(NewTrades) >= 1 /\ NewTrades[1].direction = "Rebalance"

TargetUnits == RDiv(RMul(cfg.leverage, MarkToMarket), PriceToday)

RebalanceFee == RMul(RMul(RAbs(RSub(TargetUnits, units)), PriceToday), cfg.fee_rate)

RebalanceEffect ==
    /\ Cardinality({k \in 1..Len(NewTrades) : NewTrades[k].direction = "Rebalance"}) = 1
    /\ NewTrades[1].units = TargetUnits
    /\ NewTrades[1].pnl = RNeg(RebalanceFee)
    /\ NewTrades[1].entry_price = PriceToday
    /\ NewTrades[1].exit_price = PriceToday
    /\ NewTrades[1].exit_date = Strftime(DateToday)
    /\ Len(NewTrades) = 1 =>
          /\ cash' = RSub(MarkToMarket, RebalanceFee)
          /\ units' = TargetUnits
          /\ entry_price' = PriceToday
          /\ pos' = pos

(* C16 as stated: the rebalance is applied in a period exactly when        *)
(* do_rebalance is true, the period is not the first, the month changed, a *)
(* position is open and cash > 0.                                          *)
C16_Original ==
    [][ pc = "loop" =>
          /\ RebalanceApplied <=> RebalanceConditions
          /\ RebalanceApplied => RebalanceEffect ]_vars

(* C16 amended: the rebalance is applied exactly when, besides, the period *)
(* is not the one that ends the run by liquidation; then cash is the       *)
(* mark-to-market equity minus the fee on the change of units, units is    *)
(* leverage * equity / price, entry_price is today's price, the direction  *)
(* stays and one Rebalance trade with pnl = -fee is appended.              *)
C16_MonthlyRebalance ==
    [][ pc = "loop" =>
          /\ RebalanceApplied <=> (RebalanceConditions /\ pc' # "broke")
          /\ RebalanceApplied => RebalanceEffect
          /\ pc' = "broke" => trades' = trades ]_vars

C16_Witness ==
    /\ pc \in {"loop", "ended"}
    /\ cfg.do_rebalance
    /\ cfg.fee_rate # Zero
    /\ cfg.leverage = RInt(3)
    /\ pos # 0
    /\ Len(trades) >= 1
    /\ LastTrade(trades).direction = "Rebalance"
    /\ LastTrade(trades).pnl # Zero
    /\ LastTrade(trades).units = units
    /\ LastTrade(trades).entry_price = entry_price
    /\ cash # cfg.initial_cash

ResultKeys ==
    {"final_value", "total_return", "cagr", "mdd", "sharpe", "equity_curve",
     "trades", "trade_stats"}

(* C17: with fewer than 30 observations run raises before any EquityPoint  *)
(* or Trade exists and returns nothing; a result, whenever there is one,   *)
(* has all of final_value, total_return, cagr, mdd, sharpe, equity_curve,  *)
(* trades and trade_stats.                                                 *)
C17_ErrorOrFullResult ==
    /\ (Len(prices) < 30 /\ pc # "start") =>
          /\ pc = "error"
          /\ equity_curve = <<>>
          /\ trades = <<>>
    /\ pc \in {"start", "loop", "broke", "ended", "error"} => result = NoResult
    /\ pc = "done" =>
          /\ Len(prices) >= 30
          /\ result # NoResult
          /\ ResultKeys \subseteq DOMAIN result
          /\ result.equity_curve = equity_curve
          /\ result.trades = trades

C17_Witness ==
    /\ pc = "error"
    /\ Len(prices) = 29
    /\ prices[28] = 120
    /\ prices[29] = 60
    /\ cfg.strategy_mode = "buy-hold"
    /\ result = NoResult
    /\ equity_curve = <<>>

-----------------------------------------------------------------------------
(* Properties of _calc_max_drawdown.                                       *)

RECURSIVE PeakUpTo(_, _)
PeakUpTo(vs, k) ==
    IF k = 1 THEN vs[1]
    ELSE LET before == PeakUpTo(vs, k - 1)
         IN  IF RLt(before, vs[k]) THEN vs[k] ELSE before

(* (running peak - value) / running peak at position k *)
FallAt(vs, k) == RDiv(RSub(PeakUpTo(vs, k), vs[k]), PeakUpTo(vs, k))

IsLargestFall(vs, m) ==
    /\ \E k \in 1..Len(vs) : FallAt(vs, k) = m
    /\ \A k \in 1..Len(vs) : RLe(FallAt(vs, k), m)

Scaled(vs, c) == [k \in 1..Len(vs) |-> RMul(vs[k], c)]

Factors == {Frac(1, 2), RInt(3), Frac(7, 3)}

NonDecreasing(vs) == \A k \in 2..Len(vs) : RLe(vs[k - 1], vs[k])

(* positive values and a final zero: the curve a liquidation leaves *)
EndsLiquidated(vs) ==
    /\ Len(vs) >= 2
    /\ vs[Len(vs)] = Zero
    /\ \A k \in 1..(Len(vs) - 1) : RLt(Zero, vs[k])

(* C18: for a sequence that starts positive _calc_max_drawdown is the      *)
(* largest (running peak - value) / running peak; scaling every value by a *)
(* positive constant does not change it; it is 0 for an empty or           *)
(* non-decreasing sequence and 1 for the curve of a liquidated run.        *)
C18_MaxDrawdown ==
    LET vs == Values(equity_curve)
    IN  pc = "done" =>
          /\ vs = <<>> => result.mdd = Zero
          /\ (vs # <<>> /\ RLt(Zero, vs[1])) =>
                /\ IsLargestFall(vs, result.mdd)
                /\ \A c \in Factors : CalcMaxDrawdown(Scaled(vs, c)) = result.mdd
                /\ NonDecreasing(vs) => result.mdd = Zero
                /\ EndsLiquidated(vs) => result.mdd = One

C18_Witness ==
    /\ pc = "done"
    /\ Values(equity_curve) = <<RInt(2), RInt(1), RInt(3), RInt(1)>>
    /\ result.mdd = Frac(2, 3)
    /\ CalcMaxDrawdown(Scaled(Values(equity_curve), Frac(7, 3))) = Frac(2, 3)

SellToday == Signal_Sell[ValidStart + i + 1]

(* a period in which a Long is both rebalanced and closed by a sell signal *)
RebalanceThenExit ==
    /\ pc = "loop"
    /\ pos = 1
    /\ RebalanceConditions
    /\ SellToday
    /\ ~RLt(MarkToMarket, RMul(cfg.initial_cash, Frac(15, 100)))

(* C19: within a period the equity snapshot and the liquidation check come *)
(* first, then the rebalance, then the signals: when a Long is rebalanced  *)
(* and closed in one period, the Rebalance trade stands right before the   *)
(* closing trade, the closing trade has the rebalanced entry_price (the    *)
(* day's price) and units, and the period's EquityPoint is the equity      *)
(* before the rebalance fee and the exit costs; a liquidated period has    *)
(* neither rebalance nor exit.                                             *)
C19_PeriodOrder ==
    [][ /\ RebalanceThenExit =>
              /\ Len(NewTrades) = 2
              /\ NewTrades[1].direction = "Rebalance"
              /\ NewTrades[2].direction = "Long"
              /\ NewTrades[1].exit_date = Strftime(DateToday)
              /\ NewTrades[2].exit_date = Strftime(DateToday)
              /\ NewTrades[2].entry_price = PriceToday
              /\ NewTrades[2].units = TargetUnits
              /\ NewTrades[2].exit_price = RMul(PriceToday, RSub(One, cfg.slippage))
              /\ equity_curve' = Append(equity_curve,
                                    [date |-> Strftime(DateToday), value |-> MarkToMarket])
              /\ cash' = RAdd(RSub(MarkToMarket, RebalanceFee), NewTrades[2].pnl)
        /\ (pc = "loop" /\ pos # 0
               /\ RLt(MarkToMarket, RMul(cfg.initial_cash, Frac(15, 100)))) =>
              /\ NewTrades = <<>>
              /\ pos' = pos
              /\ units' = units
              /\ equity_curve' = Append(equity_curve, ZeroPointToday) ]_vars

C19_Witness ==
    /\ pc \in {"loop", "ended"}
    /\ cfg.fee_rate # Zero
    /\ Len(trades) >= 2
    /\ LastTrade(trades).direction = "Long"
    /\ trades[Len(trades) - 1].direction = "Rebalance"
    /\ trades[Len(trades) - 1].exit_date = LastTrade(trades).exit_date
    /\ LastTrade(trades).entry_price = trades[Len(trades) - 1].exit_price
    /\ LastTrade(trades).units = trades[Len(trades) - 1].units
    /\ equity_curve[Len(equity_curve)].date = LastTrade(trades).exit_date
    /\ equity_curve[Len(equity_curve)].value # cash

BuyToday == Signal_Buy[ValidStart + i + 1]

LongOnly == cfg.trade_direction = "long-only"

NotLiquidatedToday ==
    ~(pos # 0 /\ RLt(MarkToMarket, RMul(cfg.initial_cash, Frac(15, 100))))

NeverShort ==
    LongOnly =>
        /\ pos # -1
        /\ \A k \in 1..Len(trades) : trades[k].direction # "Short"
        /\ pc = "done" => \A k \in 1..Len(result.trades) :
                              result.trades[k].direction # "Short"

(* C20: with long-only the position is never Short and no Short trade is   *)
(* recorded; a sell signal takes a Long to Flat and leaves a Flat          *)
(* position, its cash and units as they are.  A Long reopened in the       *)
(* period that closes a Short therefore belongs to a long-short run, with  *)
(* cash > 0 after the close.                                               *)
C20_LongOnly ==
    /\ []NeverShort
    /\ [][ /\ (pc = "loop" /\ LongOnly /\ SellToday /\ NotLiquidatedToday) =>
                /\ pos = 1 => (pos' = 0 /\ units' = Zero
                                /\ LastTrade(trades').direction = "Long"
                                /\ Len(trades') > Len(trades))
                /\ pos = 0 => (pos' = 0 /\ cash' = cash /\ units' = units
                                /\ trades' = trades)
          /\ (pos = -1 /\ pos' = 1) =>
                /\ cfg.trade_direction = "long-short"
                /\ BuyToday
                /\ RLt(Zero, cash')
                /\ LastTrade(trades').direction = "Short" ]_vars

C20_Witness ==
    /\ LongOnly
    /\ pc = "loop"
    /\ pos = 0
    /\ Len(trades) >= 1
    /\ LastTrade(trades).direction = "Long"
    /\ LastTrade(trades).exit_date = Strftime(dates[ValidStart + i])
    /\ Signal_Sell[ValidStart + i]
    /\ cash # cfg.initial_cash

LastPrice == RInt(prices[Len(prices)])

ForcedExitPrice ==
    RMul(LastPrice, IF pos = 1 THEN RSub(One, cfg.slippage) ELSE RAdd(One, cfg.slippage))

ForcedNetPnl ==
    RSub(RMul(RMul(RSub(ForcedExitPrice, entry_price), units), RInt(pos)),
         RMul(RMul(ForcedExitPrice, units), cfg.fee_rate))

LastPoint == equity_curve[Len(equity_curve)]

(* C21: after the last period of a run that was not liquidated, an open    *)
(* position with cash > 0 is closed by exactly one trade at the last price *)
(* with the slippage against the holder and pnl net of the exit fee, which *)
(* is added to cash; otherwise ledger and cash stay.  The equity curve is  *)
(* not touched: final_value is the last period's equity and total_return   *)
(* is final_value / initial_cash - 1, without the forced close's costs.    *)
C21_ForcedClose ==
    [][ (pc = "ended" /\ Len(equity_curve) > 0) =>
          /\ pc' = "done"
          /\ equity_curve' = equity_curve
          /\ result'.equity_curve = equity_curve
          /\ result'.final_value = LastPoint.value
          /\ result'.total_return = RSub(RDiv(LastPoint.value, cfg.initial_cash), One)
          /\ result'.trades = trades'
          /\ (pos # 0 /\ RLt(Zero, cash)) =>
                /\ Len(trades') = Len(trades) + 1
                /\ SubSeq(trades', 1, Len(trades)) = trades
                /\ LastTrade(trades').direction = (IF pos = 1 THEN "Long" ELSE "Short")
                /\ LastTrade(trades').exit_price = ForcedExitPrice
                /\ LastTrade(trades').exit_date = Strftime(dates[Len(dates)])
                /\ LastTrade(trades').entry_price = entry_price
                /\ LastTrade(trades').units = units
                /\ LastTrade(trades').pnl = ForcedNetPnl
                /\ cash' = RAdd(cash, ForcedNetPnl)
          /\ ~(pos # 0 /\ RLt(Zero, cash)) => (trades' = trades /\ cash' = cash) ]_vars

C21_Witness ==
    /\ pc = "done"
    /\ ~Broke
    /\ pos = -1
    /\ cfg.slippage # Zero
    /\ Len(trades) >= 2
    /\ LastTrade(trades).direction = "Short"
    /\ LastTrade(trades).exit_date = Strftime(dates[Len(dates)])
    /\ LastTrade(trades).exit_price = RMul(LastPrice, RAdd(One, cfg.slippage))
    /\ result.final_value = LastPoint.value
    /\ result.final_value # cash

-----------------------------------------------------------------------------
(* Properties of the leverage loop of StrategyOptimizer.run.               *)

(* x < y for two fractions with positive denominators *)
Below(x, y) == x[1] * y[2] < y[1] * x[2]

(* lev_range[0] > lev_range[1] *)
RangeEmpty == opt.lev_range \in {r \in LevBounds \X LevBounds : RLt(r[2], r[1])}

LoopOpen == opt.pc = "lev" /\ ~Below(opt.lev_range[2], opt.lev)

(* the loop is open and the next addition does not raise lev *)
Stalled == LoopOpen /\ RLe(FloatAdd(opt.lev, opt.lev_step), opt.lev)

Returns == opt.pc = "done"

StepPositive == opt.lev_step[1] > 0

EnumeratedInOrder ==
    /\ \A k \in 1..Len(opt.lev_values) :
          RLe(opt.lev_range[1], opt.lev_values[k]) /\ RLe(opt.lev_values[k], opt.lev_range[2])
    /\ \A k \in 2..Len(opt.lev_values) : RLt(opt.lev_values[k - 1], opt.lev_values[k])
    /\ Len(opt.lev_values) > 0 => opt.lev_values[1] = opt.lev_range[1]

AbsorbedLater ==
    /\ Stalled
    /\ StepPositive
    /\ Len(opt.lev_values) >= 1
    /\ opt.lev = RInt(2)

====
